---- MODULE Spec2Model ----
(***************************************************************************)
(* Model of the two scripts of OLED_Stats:                                 *)
(*   multi.py  MultiDisplaySystem: three OLED panels behind a TCA9548A     *)
(*             multiplexer, an Si7021 sensor on the main bus, slow data    *)
(*             refresh every 300 s, display refresh every second;          *)
(*   btc.py    OLEDStatsDisplay: one panel, an Si7021 and a BH1750 light   *)
(*             sensor, refresh every 60 s.                                 *)
(* Times are in milliseconds unless a name says seconds.  Decoded sensor   *)
(* values are in tenths of a unit (438 is 43.8).                           *)
(***************************************************************************)
EXTENDS Integers, Sequences, FiniteSets, TLC

VARIABLES
    script,      \* which program runs: "multi", "btc", or a harness name
    pc,          \* position of the single thread
    muxCtl,      \* last control byte the TCA9548A accepted (NoCtl: none yet)
    displays,    \* multi.py self.displays: name -> bound address (0: absent)
    sd,          \* index of the display a setup/shutdown loop is at
    addr,        \* multi.py _setup_displays: address the probe loop is at
    serial,      \* multi.py _setup_displays: address of the serial built
    opLog,       \* calls, bus transactions and sleeps of the current operation
    ret,         \* where _update_data returns to
    buf,         \* bytes read so far by the running _read_si7021
    rawH,        \* raw humidity register value of the running _read_si7021
    curTime,     \* _update_data's current_time, seconds
    store,       \* multi.py data storage fields
    now,         \* time.time(), seconds
    cycles,      \* iterations of run's loop so far
    net,         \* the network of this run: "fast" when every request is
                 \* answered at once, "slow" when one can hang
    fetched,     \* multi.py: what the latest fetch or sensor read of the
                 \* running _update_data returned
    lightLog,    \* btc.py: every transaction with the BH1750 so far
    locks,       \* btc.py: which busio.I2C objects are locked
    arg,         \* harness: the argument of the call under test
    out          \* harness: the value the call under test returned

vars == <<script, pc, muxCtl, displays, sd, addr, serial, opLog, ret, buf,
          rawH, curTime, store, now, cycles, net, fetched, lightLog, locks, arg, out>>

(***************************************************************************)
(* Bounds of the model.                                                    *)
(***************************************************************************)
MaxCycles == 2          \* iterations of a run loop explored
MaxCalls == 3           \* select_channel calls of the select harness
MaxChannel == 9         \* largest channel the select harness passes
StartTime == 1000       \* time.time() when the process starts, seconds

(***************************************************************************)
(* Program constants.                                                      *)
(***************************************************************************)
TCA9548A_ADDRESS == 112
OLED_I2C_ADDRESS == 60
SI7021_ADDRESS == 64
LIGHT_I2C_ADDRESS == 35
BTC_DISPLAY_CHANNEL == 1
CLOCK_DISPLAY_CHANNEL == 2
TEMP_DISPLAY_CHANNEL == 3
MEASURE_HUMIDITY == 245
MEASURE_TEMPERATURE == 243
READ_TEMP_FROM_PREVIOUS_RH == 224
LIGHT_POWER_ON == 1
LIGHT_RESET == 7
LIGHT_CONTINUOUS_HIGH_RES == 16
REFRESH_RATE_SLOW == 300
REFRESH_RATE_FAST == 1

\* multi.py _read_si7021: time.sleep(0.025) after each command, in ms.
\* (Faulty variant: a settle time under the 25 ms minimum.)
MultiSettleShort == 25 - 15
MultiSettleMs == 25
\* btc.py _read_si7021: time.sleep(0.03) after the humidity command, in ms.
BtcSettleMs == 30

NoCtl == 0 - 1
\* Python's None where a number is expected.
None == 0 - 100000
Byte == 0 .. 255

(***************************************************************************)
(* Integer helpers: shifts, bitwise or, rounding.                          *)
(***************************************************************************)
RECURSIVE Pow2(_)
Pow2(n) == IF n = 0 THEN 1 ELSE 2 * Pow2(n - 1)

\* Python's x << n on non-negative integers.
Shl(x, n) == x * Pow2(n)

\* Python's x | y on non-negative integers.
RECURSIVE BitOr(_, _)
BitOr(x, y) ==
    IF x = 0 THEN y
    ELSE IF y = 0 THEN x
    ELSE (IF (x % 2) + (y % 2) > 0 THEN 1 ELSE 0) + 2 * BitOr(x \div 2, y \div 2)

RECURSIVE BitCount(_)
BitCount(x) == IF x <= 0 THEN 0 ELSE (x % 2) + BitCount(x \div 2)

Max(a, b) == IF a >= b THEN a ELSE b
Min(a, b) == IF a <= b THEN a ELSE b

\* round(n / d) to an integer, d > 0, ties to even: Python's round() on a
\* double that holds n / d exactly.
RoundHalfEven(n, d) ==
    LET q == n \div d
        r == n % d
    IN  IF 2 * r > d THEN q + 1
        ELSE IF 2 * r < d THEN q
        ELSE IF q % 2 = 0 THEN q ELSE q + 1

\* round(n / d) where the double lies just below the exact n / d on a tie:
\* the double nearest 46.85 is 46.85000000000000142, so x - 46.85 is a
\* hair under the decimal tie and rounds down.
RoundTieDown(n, d) ==
    LET q == n \div d
        r == n % d
    IN  IF 2 * r > d THEN q + 1 ELSE q

(***************************************************************************)
(* Sensor register decoding.  Results are in tenths of a unit.             *)
(***************************************************************************)
\* multi.py: raw = (data[0] << 8) + data[1]
MultiRaw(d0, d1) == Shl(d0, 8) + d1

\* multi.py: round(max(0, min(100, 125.0 * raw / 65536.0 - 6)), 1).
\* 125 * raw / 65536 - 6 is exact in a double; scaled by 10 * 65536 here.
MultiHumidity(raw) ==
    LET h == 1250 * raw - 60 * 65536
    IN  RoundHalfEven(Max(0, Min(1000 * 65536, h)), 65536)

\* multi.py: round(max(-40, min(125, 175.72 * raw / 65536.0 - 46.85)), 1),
\* scaled by 100 * 65536; a tenth is 655360 of these.
MultiTemperature(raw) ==
    LET t == 17572 * raw - 4685 * 65536
    IN  RoundTieDown(Max((0 - 40) * 6553600, Min(125 * 6553600, t)), 655360)

\* btc.py: raw = (raw[0] << 8) | raw[1]
BtcRaw(b0, b1) == BitOr(Shl(b0, 8), b1)

\* btc.py: round(125 * raw / 65536 - 6, 1)
BtcHumidity(raw) == RoundHalfEven(1250 * raw - 60 * 65536, 65536)

\* btc.py: round(175.72 * raw / 65536 - 46.85, 1)
BtcTemperature(raw) == RoundTieDown(17572 * raw - 4685 * 65536, 655360)

\* (Faulty variant: the two bytes taken least significant first.)
BtcLightSwapped(b0, b1) == RoundHalfEven(BitOr(Shl(b1, 8), b0) * 25, 3)

\* btc.py: round((result[0] << 8 | result[1]) / 1.2, 1); raw / 1.2 in tenths
\* is raw * 25 / 3, never a tie.
BtcLight(b0, b1) == RoundHalfEven(BitOr(Shl(b0, 8), b1) * 25, 3)

\* (Faulty variant: no reading at all when the sensor cannot be read.)
MockReadingNone == <<None, None>>

\* multi.py: the pair returned when the sensor cannot be read.
MockReading == <<225, 450>>

(***************************************************************************)
(* The log of an operation: select_channel calls and returns, bus          *)
(* transactions, sleeps.  m is the multiplexer's control byte in effect    *)
(* right after the event.                                                  *)
(***************************************************************************)
CallEv(channel, m) == [k |-> "select_channel", a |-> channel, v |-> 0, ok |-> TRUE, m |-> m]
ReturnEv(raised, m) == [k |-> "return", a |-> 0, v |-> 0, ok |-> ~raised, m |-> m]
WriteEv(address, byte, ok, m) == [k |-> "write", a |-> address, v |-> byte, ok |-> ok, m |-> m]
ReadEv(address, byte, ok, m) == [k |-> "read", a |-> address, v |-> byte, ok |-> ok, m |-> m]
SleepEv(ms, m) == [k |-> "sleep", a |-> 0, v |-> ms, ok |-> TRUE, m |-> m]
\* A transaction with the display at `address` that lives on `channel`
\* (a probe read, the sh1106 initialisation, a canvas flush, a clear).
DisplayEv(address, channel, ok, m) == [k |-> "display", a |-> address, v |-> channel, ok |-> ok, m |-> m]

BusKinds == {"write", "read", "display"}

\* Faulty variants of select_channel, for checking that the properties
\* below depend on it: the channel number written as the control byte;
\* the range test off by one; the write's error not caught; the new
\* channel or-ed into the old control byte.
SelectChannelNoShift(channel, ok, ctl, log) ==
    IF channel > 7
    THEN [ctl |-> ctl, log |-> log \o <<CallEv(channel, ctl), ReturnEv(FALSE, ctl)>>]
    ELSE IF ok
    THEN [ctl |-> channel,
          log |-> log \o <<CallEv(channel, ctl),
                           WriteEv(TCA9548A_ADDRESS, channel, TRUE, channel),
                           SleepEv(100, channel), ReturnEv(FALSE, channel)>>]
    ELSE [ctl |-> ctl,
          log |-> log \o <<CallEv(channel, ctl),
                           WriteEv(TCA9548A_ADDRESS, channel, FALSE, ctl),
                           ReturnEv(FALSE, ctl)>>]

SelectChannelOffByOne(channel, ok, ctl, log) ==
    IF channel > 8
    THEN [ctl |-> ctl, log |-> log \o <<CallEv(channel, ctl), ReturnEv(FALSE, ctl)>>]
    ELSE IF ok
    THEN [ctl |-> Shl(1, channel),
          log |-> log \o <<CallEv(channel, ctl),
                           WriteEv(TCA9548A_ADDRESS, Shl(1, channel), TRUE, Shl(1, channel)),
                           SleepEv(100, Shl(1, channel)), ReturnEv(FALSE, Shl(1, channel))>>]
    ELSE [ctl |-> ctl,
          log |-> log \o <<CallEv(channel, ctl),
                           WriteEv(TCA9548A_ADDRESS, Shl(1, channel), FALSE, ctl),
                           ReturnEv(FALSE, ctl)>>]

SelectChannelRaises(channel, ok, ctl, log) ==
    IF channel > 7
    THEN [ctl |-> ctl, log |-> log \o <<CallEv(channel, ctl), ReturnEv(FALSE, ctl)>>]
    ELSE IF ok
    THEN [ctl |-> Shl(1, channel),
          log |-> log \o <<CallEv(channel, ctl),
                           WriteEv(TCA9548A_ADDRESS, Shl(1, channel), TRUE, Shl(1, channel)),
                           SleepEv(100, Shl(1, channel)), ReturnEv(FALSE, Shl(1, channel))>>]
    ELSE [ctl |-> ctl,
          log |-> log \o <<CallEv(channel, ctl),
                           WriteEv(TCA9548A_ADDRESS, Shl(1, channel), FALSE, ctl),
                           ReturnEv(TRUE, ctl)>>]

SelectChannelAccumulates(channel, ok, ctl, log) ==
    LET byte == BitOr(Max(ctl, 0), Shl(1, channel))
    IN  IF channel > 7
        THEN [ctl |-> ctl, log |-> log \o <<CallEv(channel, ctl), ReturnEv(FALSE, ctl)>>]
        ELSE IF ok
        THEN [ctl |-> byte,
              log |-> log \o <<CallEv(channel, ctl),
                               WriteEv(TCA9548A_ADDRESS, byte, TRUE, byte),
                               SleepEv(100, byte), ReturnEv(FALSE, byte)>>]
        ELSE [ctl |-> ctl,
              log |-> log \o <<CallEv(channel, ctl),
                               WriteEv(TCA9548A_ADDRESS, byte, FALSE, ctl),
                               ReturnEv(FALSE, ctl)>>]

(***************************************************************************)
(* multi.py select_channel(channel).  `ok` is whether the bus accepts the  *)
(* write; ctl and log are the control byte and the log before the call.    *)
(* The result is the control byte and the log after it.                    *)
(***************************************************************************)
SelectChannel(channel, ok, ctl, log) ==
    IF channel > 7
    THEN [ctl |-> ctl,
          log |-> log \o <<CallEv(channel, ctl), ReturnEv(FALSE, ctl)>>]
    ELSE IF ok
    THEN [ctl |-> Shl(1, channel),
          log |-> log \o <<CallEv(channel, ctl),
                           WriteEv(TCA9548A_ADDRESS, Shl(1, channel), TRUE, Shl(1, channel)),
                           SleepEv(100, Shl(1, channel)),
                           ReturnEv(FALSE, Shl(1, channel))>>]
    ELSE [ctl |-> ctl,
          log |-> log \o <<CallEv(channel, ctl),
                           WriteEv(TCA9548A_ADDRESS, Shl(1, channel), FALSE, ctl),
                           ReturnEv(FALSE, ctl)>>]

(***************************************************************************)
(* multi.py: the displays.                                                 *)
(***************************************************************************)
Names == <<"btc", "clock", "temp">>

\* display_channels of _setup_displays: the channel each display lives on.
DisplayChannel(i) ==
    CASE i = 1 -> BTC_DISPLAY_CHANNEL
      [] i = 2 -> CLOCK_DISPLAY_CHANNEL
      [] i = 3 -> TEMP_DISPLAY_CHANNEL

\* (Faulty variant: every _update_*_display selects the BTC channel.)
UpdateChannelCopied(i) == BTC_DISPLAY_CHANNEL

\* The channel each _update_*_display passes to select_channel.
UpdateChannel(i) ==
    CASE i = 1 -> BTC_DISPLAY_CHANNEL
      [] i = 2 -> CLOCK_DISPLAY_CHANNEL
      [] i = 3 -> TEMP_DISPLAY_CHANNEL

\* The channel run's shutdown loop passes to select_channel for a name.
ShutdownChannel(i) ==
    CASE i = 1 -> BTC_DISPLAY_CHANNEL
      [] i = 2 -> CLOCK_DISPLAY_CHANNEL
      [] i = 3 -> TEMP_DISPLAY_CHANNEL

\* (Faulty variant: the alternate address is probed first.)
ProbeAddressesReversed == <<61, 60>>

\* for addr in range(0x3C, 0x3E)
ProbeAddresses == <<60, 61>>

Present(i) == displays[Names[i]] # 0

\* The first display at or after index i that self.displays holds, 4 if none:
\* the order of self.displays.items() is the order of insertion.
RECURSIVE NextPresent(_)
NextPresent(i) == IF i > 3 THEN 4 ELSE IF Present(i) THEN i ELSE NextPresent(i + 1)

\* The data storage before __init__ has assigned it.
Unset == "unset"
NoStore == [btc_price |-> Unset, usd_czk_rate |-> Unset,
            outside |-> <<None, None>>, inside |-> <<None, None>>,
            last_slow_update |-> 0]

\* What a fetch or a sensor read returned to _update_data: k names the
\* source, s is a returned string, w a returned pair.
NoFetch == [k |-> "none", s |-> "", w |-> <<None, None>>]
FetchedText(source, text) == [k |-> source, s |-> text, w |-> <<None, None>>]
FetchedPair(source, pair) == [k |-> source, s |-> "", w |-> pair]

(***************************************************************************)
(* What the environment can answer.                                        *)
(***************************************************************************)
SensorBytes == {102}
\* _get_bitcoin_price: a formatted price, or "Error".
BtcFetchResults == {"Error", "$97,000"}
\* _get_usd_czk_rate: a formatted rate, "$/CZK: N/A", or "USD/CZK: Error".
UsdFetchResults == {"USD/CZK: Error", "$/CZK: N/A", "$/CZK: 23.45"}
\* _get_outside_weather: (round(temp, 1), humidity), humidity possibly null,
\* or (None, None).
WeatherResults == {<<None, None>>, <<125, None>>, <<125, 60>>}
\* Seconds a fetch can take: requests.get is called without a timeout, so
\* on a slow network a request can hang for as long as a refresh period.
FetchDelays == IF net = "slow" THEN {0, REFRESH_RATE_SLOW} ELSE {0}
\* Seconds from one iteration of run's loop to the next: the sleep of
\* REFRESH_RATE_FAST, or a run of iterations that change nothing, taken as one.
SleepSteps == {REFRESH_RATE_FAST, REFRESH_RATE_SLOW - 1, REFRESH_RATE_SLOW}

\* (Faulty variant: s == "Error".)
ContainsErrorExact(s) == s = "Error"

\* "Error" in s
ContainsError(s) == s \in {"Error", "USD/CZK: Error"}

(***************************************************************************)
(* multi.py MultiDisplaySystem.__init__ and _setup_displays.               *)
(***************************************************************************)
\* What no multi.py step touches, and what only _update_data's steps touch.
multiRest == <<net, lightLog, locks, arg, out>>
multiIdle == <<net, fetched, lightLog, locks, arg, out>>

\* __init__: bus.write_byte(TCA9548A_ADDRESS, 0), failure logged.
InitReset ==
    /\ script = "multi" /\ pc = "init_reset"
    /\ \E ok \in BOOLEAN :
        /\ muxCtl' = IF ok THEN 0 ELSE muxCtl
        /\ opLog' = <<WriteEv(TCA9548A_ADDRESS, 0, ok, muxCtl')>>
    /\ pc' = "setup_select" /\ sd' = 1
    /\ UNCHANGED <<script, displays, addr, serial, ret, buf, rawH, curTime,
                   store, now, cycles>>
    /\ UNCHANGED multiIdle

\* The loop of _setup_displays moves on to the next display, or __init__
\* goes on to the data storage.
SetupNext ==
    IF sd < 3 THEN pc' = "setup_select" /\ sd' = sd + 1
    ELSE pc' = "init_storage" /\ sd' = sd

\* select_channel(channel); time.sleep(0.1)
SetupSelect ==
    /\ script = "multi" /\ pc = "setup_select"
    /\ \E ok \in BOOLEAN :
        LET r == SelectChannel(DisplayChannel(sd), ok, muxCtl, << >>)
        IN  /\ muxCtl' = r.ctl
            /\ opLog' = Append(r.log, SleepEv(100, r.ctl))
    /\ pc' = "setup_probe" /\ addr' = 1 /\ serial' = 0
    /\ UNCHANGED <<script, displays, sd, ret, buf, rawH, curTime, store, now, cycles>>
    /\ UNCHANGED multiIdle

\* One turn of the scan: bus.read_byte(addr).  A device that answers gives
\* the serial its address; when none answers the default address is used.
SetupProbe ==
    /\ script = "multi" /\ pc = "setup_probe"
    /\ \E ok \in BOOLEAN :
        /\ opLog' = Append(opLog, DisplayEv(ProbeAddresses[addr], DisplayChannel(sd), ok, muxCtl))
        /\ IF ok
           THEN serial' = ProbeAddresses[addr] /\ pc' = "setup_init" /\ addr' = addr
           ELSE IF addr < Len(ProbeAddresses)
           THEN serial' = serial /\ pc' = pc /\ addr' = addr + 1
           ELSE serial' = OLED_I2C_ADDRESS /\ pc' = "setup_init" /\ addr' = addr
    /\ UNCHANGED <<script, muxCtl, displays, sd, ret, buf, rawH, curTime, store, now, cycles>>
    /\ UNCHANGED multiIdle

\* self.displays[name] = sh1106(serial): the initialisation sequence is sent
\* to the display; a failure leaves the display out and the loop goes on.
SetupInit ==
    /\ script = "multi" /\ pc = "setup_init"
    /\ \E ok \in BOOLEAN :
        /\ opLog' = Append(opLog, DisplayEv(serial, DisplayChannel(sd), ok, muxCtl))
        /\ IF ok
           THEN /\ displays' = [displays EXCEPT ![Names[sd]] = serial]
                /\ pc' = "setup_draw" /\ sd' = sd
           ELSE /\ displays' = displays
                /\ SetupNext
    /\ UNCHANGED <<script, muxCtl, addr, serial, ret, buf, rawH, curTime, store, now, cycles>>
    /\ UNCHANGED multiIdle

\* The "INIT <NAME>" test drawing, then time.sleep(0.5); a failure is logged.
SetupDraw ==
    /\ script = "multi" /\ pc = "setup_draw"
    /\ \E ok \in BOOLEAN :
        opLog' = IF ok
                 THEN opLog \o <<DisplayEv(displays[Names[sd]], DisplayChannel(sd), TRUE, muxCtl),
                                 SleepEv(500, muxCtl)>>
                 ELSE Append(opLog, DisplayEv(displays[Names[sd]], DisplayChannel(sd), FALSE, muxCtl))
    /\ SetupNext
    /\ UNCHANGED <<script, muxCtl, displays, addr, serial, ret, buf, rawH, curTime, store, now, cycles>>
    /\ UNCHANGED multiIdle

\* __init__: the data storage fields.
InitStorage ==
    /\ script = "multi" /\ pc = "init_storage"
    /\ store' = [btc_price |-> "Loading...", usd_czk_rate |-> "Loading...",
                 outside |-> <<None, None>>, inside |-> <<None, None>>,
                 last_slow_update |-> 0]
    /\ pc' = "run_first"
    /\ addr' = 1 /\ serial' = 0 /\ opLog' = << >>
    /\ UNCHANGED <<script, muxCtl, displays, sd, ret, buf, rawH, curTime, now, cycles>>
    /\ UNCHANGED multiIdle

(***************************************************************************)
(* multi.py _update_data and _read_si7021.                                 *)
(***************************************************************************)
\* (Faulty variant: the refresh waits for more than REFRESH_RATE_SLOW.)
UdCheckStrictlyLater ==
    /\ script = "multi" /\ pc = "ud_check"
    /\ IF now - store.last_slow_update > REFRESH_RATE_SLOW
       THEN curTime' = now /\ pc' = "ud_btc"
       ELSE curTime' = 0 /\ pc' = ret
    /\ opLog' = << >>
    /\ UNCHANGED <<script, muxCtl, displays, sd, addr, serial, ret, buf, rawH,
                   store, now, cycles>>
    /\ UNCHANGED multiIdle

\* current_time = time.time(); the refresh runs when REFRESH_RATE_SLOW
\* seconds have passed since last_slow_update.  curTime is 0 outside a
\* refresh, where the local no longer matters.
UdCheck ==
    /\ script = "multi" /\ pc = "ud_check"
    /\ IF now - store.last_slow_update >= REFRESH_RATE_SLOW
       THEN curTime' = now /\ pc' = "ud_btc"
       ELSE curTime' = 0 /\ pc' = ret
    /\ opLog' = << >>
    /\ UNCHANGED <<script, muxCtl, displays, sd, addr, serial, ret, buf, rawH,
                   store, now, cycles>>
    /\ UNCHANGED multiIdle

\* btc_price = self._get_bitcoin_price(); stored unless it is "Error".
UdBtc ==
    /\ script = "multi" /\ pc = "ud_btc"
    /\ \E r \in BtcFetchResults, dt \in FetchDelays :
        /\ store' = IF r # "Error" THEN [store EXCEPT !.btc_price = r] ELSE store
        /\ fetched' = FetchedText("btc", r)
        /\ now' = now + dt
    /\ pc' = "ud_usd"
    /\ UNCHANGED <<script, muxCtl, displays, sd, addr, serial, opLog, ret, buf, rawH,
                   curTime, cycles>>
    /\ UNCHANGED multiRest

\* usd_czk_rate = self._get_usd_czk_rate(); stored unless it holds "Error".
UdUsd ==
    /\ script = "multi" /\ pc = "ud_usd"
    /\ \E r \in UsdFetchResults :
        /\ store' = IF ~ContainsError(r) THEN [store EXCEPT !.usd_czk_rate = r] ELSE store
        /\ fetched' = FetchedText("usd", r)
    /\ pc' = "si_deselect"
    /\ UNCHANGED <<script, muxCtl, displays, sd, addr, serial, opLog, ret, buf, rawH,
                   curTime, now, cycles>>
    /\ UNCHANGED multiRest

\* _read_si7021 returns `pair` to _update_data, which stores it as the
\* inside conditions when neither value is None.
SiReturn(pair) ==
    /\ store' = IF pair[1] # None /\ pair[2] # None
                THEN [store EXCEPT !.inside = pair] ELSE store
    /\ fetched' = FetchedPair("inside", pair)
    /\ pc' = "ud_weather"
    /\ buf' = << >> /\ rawH' = 0

\* _read_si7021 goes on to position `next`.
SiGoto(next) ==
    /\ pc' = next
    /\ buf' = << >> /\ rawH' = rawH /\ store' = store /\ fetched' = NoFetch

siFrame == <<script, displays, sd, addr, serial, ret, curTime, now, cycles>>

\* (Faulty variant: a failed deselect is ignored and the sensor is read.)
SiDeselectGoesOn ==
    /\ script = "multi" /\ pc = "si_deselect"
    /\ \E ok \in BOOLEAN :
        /\ muxCtl' = IF ok THEN 0 ELSE muxCtl
        /\ opLog' = IF ok THEN <<WriteEv(TCA9548A_ADDRESS, 0, TRUE, 0), SleepEv(100, 0)>>
                  ELSE <<WriteEv(TCA9548A_ADDRESS, 0, FALSE, muxCtl)>>
        /\ SiGoto("si_hcmd")
    /\ UNCHANGED siFrame
    /\ UNCHANGED multiRest

\* bus.write_byte(TCA9548A_ADDRESS, 0); time.sleep(0.1).  A failure is
\* caught by the outer handler, which returns the mock pair.
SiDeselect ==
    /\ script = "multi" /\ pc = "si_deselect"
    /\ \E ok \in BOOLEAN :
        IF ok
        THEN /\ muxCtl' = 0
             /\ opLog' = <<WriteEv(TCA9548A_ADDRESS, 0, TRUE, 0), SleepEv(100, 0)>>
             /\ SiGoto("si_hcmd")
        ELSE /\ muxCtl' = muxCtl
             /\ opLog' = <<WriteEv(TCA9548A_ADDRESS, 0, FALSE, muxCtl)>>
             /\ SiReturn(MockReading)
    /\ UNCHANGED siFrame
    /\ UNCHANGED multiRest

\* bus.write_byte(SI7021_ADDRESS, command); time.sleep(0.025).  A failure
\* is caught by the inner handler, which returns the mock pair.
SiCommand(at, command, next) ==
    /\ script = "multi" /\ pc = at
    /\ \E ok \in BOOLEAN :
        IF ok
        THEN /\ opLog' = opLog \o <<WriteEv(SI7021_ADDRESS, command, TRUE, muxCtl),
                                    SleepEv(MultiSettleMs, muxCtl)>>
             /\ SiGoto(next)
        ELSE /\ opLog' = Append(opLog, WriteEv(SI7021_ADDRESS, command, FALSE, muxCtl))
             /\ SiReturn(MockReading)
    /\ UNCHANGED muxCtl
    /\ UNCHANGED siFrame
    /\ UNCHANGED multiRest

SiHumCmd == SiCommand("si_hcmd", MEASURE_HUMIDITY, "si_hread")

SiTempCmd == SiCommand("si_tcmd", MEASURE_TEMPERATURE, "si_tread")

\* One bus.read_byte(SI7021_ADDRESS) of the humidity loop; after the second
\* byte raw_humidity is formed.
SiHumRead ==
    /\ script = "multi" /\ pc = "si_hread"
    /\ \E ok \in BOOLEAN, b \in SensorBytes :
        IF ok
        THEN /\ opLog' = Append(opLog, ReadEv(SI7021_ADDRESS, b, TRUE, muxCtl))
             /\ store' = store
             /\ IF Len(buf) = 1
                THEN rawH' = MultiRaw(buf[1], b) /\ buf' = << >> /\ pc' = "si_tcmd"
                ELSE rawH' = rawH /\ buf' = Append(buf, b) /\ pc' = pc
             /\ fetched' = NoFetch
        ELSE /\ opLog' = Append(opLog, ReadEv(SI7021_ADDRESS, 0, FALSE, muxCtl))
             /\ SiReturn(MockReading)
    /\ UNCHANGED muxCtl
    /\ UNCHANGED siFrame
    /\ UNCHANGED multiRest

\* One bus.read_byte(SI7021_ADDRESS) of the temperature loop; after the
\* second byte both values are decoded, bounded, rounded and returned.
SiTempRead ==
    /\ script = "multi" /\ pc = "si_tread"
    /\ \E ok \in BOOLEAN, b \in SensorBytes :
        IF ok
        THEN /\ opLog' = Append(opLog, ReadEv(SI7021_ADDRESS, b, TRUE, muxCtl))
             /\ IF Len(buf) = 1
                THEN SiReturn(<<MultiTemperature(MultiRaw(buf[1], b)), MultiHumidity(rawH)>>)
                ELSE /\ store' = store /\ rawH' = rawH /\ buf' = Append(buf, b) /\ pc' = pc
                     /\ fetched' = NoFetch
        ELSE /\ opLog' = Append(opLog, ReadEv(SI7021_ADDRESS, 0, FALSE, muxCtl))
             /\ SiReturn(MockReading)
    /\ UNCHANGED muxCtl
    /\ UNCHANGED siFrame
    /\ UNCHANGED multiRest

\* temp, humidity = self._get_outside_weather(), stored when neither is
\* None.
UdWeather ==
    /\ script = "multi" /\ pc = "ud_weather"
    /\ \E w \in WeatherResults :
        /\ store' = IF w[1] # None /\ w[2] # None
                    THEN [store EXCEPT !.outside = w] ELSE store
        /\ fetched' = FetchedPair("outside", w)
    /\ pc' = "ud_stamp"
    /\ UNCHANGED <<script, muxCtl, displays, sd, addr, serial, opLog, ret, buf, rawH,
                   curTime, now, cycles>>
    /\ UNCHANGED multiRest

\* self.last_slow_update = current_time, and _update_data returns.
UdStamp ==
    /\ script = "multi" /\ pc = "ud_stamp"
    /\ store' = [store EXCEPT !.last_slow_update = curTime]
    /\ pc' = ret /\ curTime' = 0 /\ fetched' = NoFetch
    /\ UNCHANGED <<script, muxCtl, displays, sd, addr, serial, opLog, ret, buf, rawH,
                   now, cycles>>
    /\ UNCHANGED multiRest

(***************************************************************************)
(* multi.py run, update_displays and the three _update_*_display.          *)
(***************************************************************************)
\* run: the initial self._update_data()
RunFirst ==
    /\ script = "multi" /\ pc = "run_first"
    /\ pc' = "ud_check" /\ ret' = "loop_top"
    /\ UNCHANGED <<script, muxCtl, displays, sd, addr, serial, opLog, buf, rawH,
                   curTime, store, now, cycles>>
    /\ UNCHANGED multiIdle

\* while True: update_displays() starts with self._update_data()
LoopTop ==
    /\ script = "multi" /\ pc = "loop_top"
    /\ cycles < MaxCycles
    /\ cycles' = cycles + 1
    /\ pc' = "ud_check" /\ ret' = "upd_select_1"
    /\ UNCHANGED <<script, muxCtl, displays, sd, addr, serial, opLog, buf, rawH,
                   curTime, store, now>>
    /\ UNCHANGED multiIdle

UpdSelectPc(i) == CASE i = 1 -> "upd_select_1" [] i = 2 -> "upd_select_2" [] i = 3 -> "upd_select_3"
UpdDrawPc(i) == CASE i = 1 -> "upd_draw_1" [] i = 2 -> "upd_draw_2" [] i = 3 -> "upd_draw_3"
\* After display i, update_displays calls the next _update_*_display, and
\* after the last one run sleeps.
UpdAfterPc(i) == IF i < 3 THEN UpdSelectPc(i + 1) ELSE "loop_sleep"

\* _update_*_display up to its select_channel: nothing when the display is
\* not in self.displays.
UpdSelect(i) ==
    /\ script = "multi" /\ pc = UpdSelectPc(i)
    /\ IF ~Present(i)
       THEN /\ pc' = UpdAfterPc(i)
            /\ UNCHANGED <<muxCtl, opLog>>
       ELSE /\ \E ok \in BOOLEAN :
                LET r == SelectChannel(UpdateChannel(i), ok, muxCtl, << >>)
                IN  muxCtl' = r.ctl /\ opLog' = r.log
            /\ pc' = UpdDrawPc(i)
    /\ UNCHANGED <<script, displays, sd, addr, serial, ret, buf, rawH, curTime,
                   store, now, cycles>>
    /\ UNCHANGED multiIdle

\* with canvas(self.displays[name]) as draw: the frame is sent to the
\* display.  A failure propagates to update_displays, which logs it and
\* returns, skipping the displays that follow.
UpdDraw(i) ==
    /\ script = "multi" /\ pc = UpdDrawPc(i)
    /\ \E ok \in BOOLEAN :
        /\ opLog' = Append(opLog, DisplayEv(displays[Names[i]], DisplayChannel(i), ok, muxCtl))
        /\ pc' = IF ok THEN UpdAfterPc(i) ELSE "loop_sleep"
    /\ UNCHANGED <<script, muxCtl, displays, sd, addr, serial, ret, buf, rawH, curTime,
                   store, now, cycles>>
    /\ UNCHANGED multiIdle

UpdateBtcDisplay == UpdSelect(1) \/ UpdDraw(1)

UpdateClockDisplay == UpdSelect(2) \/ UpdDraw(2)

UpdateTempDisplay == UpdSelect(3) \/ UpdDraw(3)

\* time.sleep(REFRESH_RATE_FAST)
LoopSleep ==
    /\ script = "multi" /\ pc = "loop_sleep"
    /\ \E dt \in SleepSteps : now' = now + dt
    /\ pc' = "loop_top"
    /\ UNCHANGED <<script, muxCtl, displays, sd, addr, serial, opLog, ret, buf, rawH,
                   curTime, store, cycles>>
    /\ UNCHANGED multiIdle

\* The positions inside run's try block.
RunPcs == {"run_first", "ud_check", "ud_btc", "ud_usd", "si_deselect", "si_hcmd",
           "si_hread", "si_tcmd", "si_tread", "ud_weather", "ud_stamp", "loop_top",
           "upd_select_1", "upd_draw_1", "upd_select_2", "upd_draw_2",
           "upd_select_3", "upd_draw_3", "loop_sleep"}

\* The shutdown loop moves on to the display at or after index i.
ShutdownAt(i) ==
    IF NextPresent(i) > 3 THEN pc' = "done" /\ sd' = sd
    ELSE pc' = "sh_select" /\ sd' = NextPresent(i)

\* KeyboardInterrupt anywhere in run: "Shutting down displays".
Interrupt ==
    /\ script = "multi" /\ pc \in RunPcs
    /\ ShutdownAt(1)
    /\ opLog' = << >> /\ buf' = << >> /\ rawH' = 0 /\ curTime' = 0 /\ ret' = "loop_top"
    /\ fetched' = NoFetch
    /\ UNCHANGED <<script, muxCtl, displays, addr, serial, store, now, cycles>>
    /\ UNCHANGED multiRest

\* One turn of the shutdown loop: select_channel(the channel of name), then
\* display.clear(), whose failure is logged.
ShutdownClear ==
    /\ script = "multi" /\ pc = "sh_select"
    /\ \E okSelect \in BOOLEAN, okClear \in BOOLEAN :
        LET r == SelectChannel(ShutdownChannel(sd), okSelect, muxCtl, << >>)
        IN  /\ muxCtl' = r.ctl
            /\ opLog' = Append(r.log, DisplayEv(displays[Names[sd]], DisplayChannel(sd),
                                                okClear, r.ctl))
    /\ ShutdownAt(sd + 1)
    /\ UNCHANGED <<script, displays, addr, serial, ret, buf, rawH, curTime,
                   store, now, cycles>>
    /\ UNCHANGED multiIdle

MultiInit ==
    /\ script = "multi" /\ pc = "init_reset"
    /\ muxCtl = NoCtl
    /\ displays = [n \in {"btc", "clock", "temp"} |-> 0]
    /\ sd = 1 /\ addr = 1 /\ serial = 0
    /\ opLog = << >> /\ ret = "loop_top" /\ buf = << >> /\ rawH = 0
    /\ curTime = 0 /\ store = NoStore
    /\ now = StartTime /\ cycles = 0 /\ net = "fast" /\ fetched = NoFetch
    /\ lightLog = << >> /\ locks = {} /\ arg = 0 /\ out = 0

MultiNext ==
    \/ InitReset \/ SetupSelect \/ SetupProbe \/ SetupInit \/ SetupDraw \/ InitStorage
    \/ RunFirst \/ LoopTop \/ UdCheck \/ UdBtc \/ UdUsd
    \/ SiDeselect \/ SiHumCmd \/ SiHumRead \/ SiTempCmd \/ SiTempRead \/ UdWeather \/ UdStamp
    \/ UpdateBtcDisplay \/ UpdateClockDisplay \/ UpdateTempDisplay
    \/ LoopSleep \/ Interrupt \/ ShutdownClear

SpecMulti == MultiInit /\ [][MultiNext]_vars

\* multi.py run() on a network where a request can hang, from the state
\* __init__ leaves when the three displays answered at the default address:
\* the channel of the last display set up is still selected.
SlowInit ==
    /\ script = "multi" /\ pc = "run_first"
    /\ muxCtl = Shl(1, TEMP_DISPLAY_CHANNEL)
    /\ displays = [n \in {"btc", "clock", "temp"} |-> OLED_I2C_ADDRESS]
    /\ sd = 3 /\ addr = 1 /\ serial = 0
    /\ opLog = << >> /\ ret = "loop_top" /\ buf = << >> /\ rawH = 0
    /\ curTime = 0
    /\ store = [btc_price |-> "Loading...", usd_czk_rate |-> "Loading...",
                outside |-> <<None, None>>, inside |-> <<None, None>>,
                last_slow_update |-> 0]
    /\ now = StartTime /\ cycles = 0 /\ net = "slow" /\ fetched = NoFetch
    /\ lightLog = << >> /\ locks = {} /\ arg = 0 /\ out = 0

RunNext ==
    \/ RunFirst \/ LoopTop \/ UdCheck \/ UdBtc \/ UdUsd
    \/ SiDeselect \/ SiHumCmd \/ SiHumRead \/ SiTempCmd \/ SiTempRead \/ UdWeather \/ UdStamp
    \/ UpdateBtcDisplay \/ UpdateClockDisplay \/ UpdateTempDisplay
    \/ LoopSleep \/ Interrupt \/ ShutdownClear

SpecSlow == SlowInit /\ [][RunNext]_vars

(***************************************************************************)
(* btc.py OLEDStatsDisplay.                                                *)
(***************************************************************************)
btcIdle == <<script, muxCtl, displays, addr, serial, ret, buf, curTime, store, now,
            net, fetched, arg>>

\* (Faulty variant: the sensor is reset before it is powered on.)
LightCommandsResetFirst == <<LIGHT_RESET, LIGHT_POWER_ON, LIGHT_CONTINUOUS_HIGH_RES>>

\* The commands _setup_light_sensor writes, in its order.
LightCommands == <<LIGHT_POWER_ON, LIGHT_RESET, LIGHT_CONTINUOUS_HIGH_RES>>

\* while not <i2c>.try_lock(): pass -- passes only once the lock is free.
BLock(at, name, next) ==
    /\ script = "btc" /\ pc = at
    /\ name \notin locks
    /\ locks' = locks \cup {name}
    /\ pc' = next
    /\ UNCHANGED <<sd, opLog, rawH, cycles, lightLog, out>>
    /\ UNCHANGED btcIdle

\* __init__: self.i2c = board.I2C(), then _setup_si7021_sensor.
BConstruct ==
    /\ script = "btc" /\ pc = "b_start"
    /\ pc' = "b_si_lock"
    /\ UNCHANGED <<sd, opLog, rawH, cycles, lightLog, locks, out>>
    /\ UNCHANGED btcIdle

BSetupSiLock == BLock("b_si_lock", "si7021", "b_si_scan")

\* _setup_si7021_sensor: scan(), unlock(); RuntimeError when 0x40 is not
\* among the addresses, which __init__ lets through to __main__.
BSetupSiScan ==
    /\ script = "btc" /\ pc = "b_si_scan"
    /\ locks' = locks \ {"si7021"}
    /\ \E found \in BOOLEAN : pc' = IF found THEN "b_li_lock" ELSE "b_failed"
    /\ UNCHANGED <<sd, opLog, rawH, cycles, lightLog, out>>
    /\ UNCHANGED btcIdle

BSetupLightLock == BLock("b_li_lock", "light", "b_li_scan")

\* _setup_light_sensor: scan(), unlock(); RuntimeError when 0x23 is absent.
BSetupLightScan ==
    /\ script = "btc" /\ pc = "b_li_scan"
    /\ locks' = locks \ {"light"}
    /\ \E found \in BOOLEAN :
        IF found THEN pc' = "b_lw_lock" /\ sd' = 1
        ELSE pc' = "b_failed" /\ sd' = sd
    /\ UNCHANGED <<opLog, rawH, cycles, lightLog, out>>
    /\ UNCHANGED btcIdle

BLightWriteLock == BLock("b_lw_lock", "light", "b_lw_write")

\* _light_sensor_write(command): writeto, unlock; on an error unlock and
\* raise, which ends _setup_light_sensor and __init__.
BLightWrite ==
    /\ script = "btc" /\ pc = "b_lw_write"
    /\ locks' = locks \ {"light"}
    /\ \E ok \in BOOLEAN :
        /\ lightLog' = Append(lightLog, WriteEv(LIGHT_I2C_ADDRESS, LightCommands[sd], ok, muxCtl))
        /\ IF ~ok THEN pc' = "b_failed" /\ sd' = sd
           ELSE IF sd < Len(LightCommands) THEN pc' = "b_lw_lock" /\ sd' = sd + 1
           ELSE pc' = "b_lw_wait" /\ sd' = sd
    /\ UNCHANGED <<opLog, rawH, cycles, out>>
    /\ UNCHANGED btcIdle

\* _setup_light_sensor: time.sleep(0.2), "Wait for first measurement".
BLightWait ==
    /\ script = "btc" /\ pc = "b_lw_wait"
    /\ lightLog' = Append(lightLog, SleepEv(200, muxCtl))
    /\ pc' = "b_disp_setup"
    /\ UNCHANGED <<sd, opLog, rawH, cycles, locks, out>>
    /\ UNCHANGED btcIdle

\* _setup_display: sh1106(serial), contrast(255); a failure is raised again.
BSetupDisplay ==
    /\ script = "btc" /\ pc = "b_disp_setup"
    /\ \E ok \in BOOLEAN :
        /\ opLog' = <<DisplayEv(OLED_I2C_ADDRESS, 0, ok, muxCtl)>>
        /\ pc' = IF ok THEN "b_loop_top" ELSE "b_failed"
    /\ UNCHANGED <<sd, rawH, cycles, lightLog, locks, out>>
    /\ UNCHANGED btcIdle

\* run: while True: update_display() starts with _get_bitcoin_price().
BLoopTop ==
    /\ script = "btc" /\ pc = "b_loop_top"
    /\ cycles < MaxCycles
    /\ cycles' = cycles + 1
    /\ pc' = "b_rs_lock"
    /\ opLog' = << >>
    /\ UNCHANGED <<sd, rawH, lightLog, locks, out>>
    /\ UNCHANGED btcIdle

BReadSiLock == BLock("b_rs_lock", "si7021", "b_rs_hcmd")

\* (Faulty variants of the handler: the humidity already measured is
\* returned beside a None temperature; the lock is not released.)
BSiFailKeepsHumidity ==
    /\ locks' = locks \ {"si7021"}
    /\ out' = <<None, IF rawH # 0 THEN BtcHumidity(rawH) ELSE None>>
    /\ rawH' = 0
    /\ pc' = "b_rl_lock"

BSiFailKeepsLock ==
    /\ locks' = locks
    /\ out' = <<None, None>>
    /\ rawH' = 0
    /\ pc' = "b_rl_lock"

\* _read_si7021's handler: log, unlock, return None, None.
BSiFail ==
    /\ locks' = locks \ {"si7021"}
    /\ out' = <<None, None>>
    /\ rawH' = 0
    /\ pc' = "b_rl_lock"

\* writeto(SI7021_ADDRESS, [MEASURE_HUMIDITY]); time.sleep(0.03)
BSiHumCmd ==
    /\ script = "btc" /\ pc = "b_rs_hcmd"
    /\ \E ok \in BOOLEAN :
        IF ok
        THEN /\ opLog' = opLog \o <<WriteEv(SI7021_ADDRESS, MEASURE_HUMIDITY, TRUE, muxCtl),
                                    SleepEv(BtcSettleMs, muxCtl)>>
             /\ pc' = "b_rs_hread"
             /\ UNCHANGED <<locks, out, rawH>>
        ELSE /\ opLog' = Append(opLog, WriteEv(SI7021_ADDRESS, MEASURE_HUMIDITY, FALSE, muxCtl))
             /\ BSiFail
    /\ UNCHANGED <<sd, cycles, lightLog>>
    /\ UNCHANGED btcIdle

\* readfrom_into(SI7021_ADDRESS, raw_rh): three bytes, the third unused.
BSiHumRead ==
    /\ script = "btc" /\ pc = "b_rs_hread"
    /\ \E ok \in BOOLEAN, b0 \in SensorBytes, b1 \in SensorBytes :
        IF ok
        THEN /\ opLog' = Append(opLog, ReadEv(SI7021_ADDRESS, BtcRaw(b0, b1), TRUE, muxCtl))
             /\ rawH' = BtcRaw(b0, b1)
             /\ pc' = "b_rs_tcmd"
             /\ UNCHANGED <<locks, out>>
        ELSE /\ opLog' = Append(opLog, ReadEv(SI7021_ADDRESS, 0, FALSE, muxCtl))
             /\ BSiFail
    /\ UNCHANGED <<sd, cycles, lightLog>>
    /\ UNCHANGED btcIdle

\* writeto(SI7021_ADDRESS, [READ_TEMP_FROM_PREVIOUS_RH]), no sleep after it.
BSiTempCmd ==
    /\ script = "btc" /\ pc = "b_rs_tcmd"
    /\ \E ok \in BOOLEAN :
        IF ok
        THEN /\ opLog' = Append(opLog, WriteEv(SI7021_ADDRESS, READ_TEMP_FROM_PREVIOUS_RH, TRUE, muxCtl))
             /\ pc' = "b_rs_tread"
             /\ UNCHANGED <<locks, out, rawH>>
        ELSE /\ opLog' = Append(opLog, WriteEv(SI7021_ADDRESS, READ_TEMP_FROM_PREVIOUS_RH, FALSE, muxCtl))
             /\ BSiFail
    /\ UNCHANGED <<sd, cycles, lightLog>>
    /\ UNCHANGED btcIdle

\* readfrom_into(SI7021_ADDRESS, raw_temp); unlock(); convert, round, return.
BSiTempRead ==
    /\ script = "btc" /\ pc = "b_rs_tread"
    /\ \E ok \in BOOLEAN, b0 \in SensorBytes, b1 \in SensorBytes :
        IF ok
        THEN /\ opLog' = Append(opLog, ReadEv(SI7021_ADDRESS, BtcRaw(b0, b1), TRUE, muxCtl))
             /\ locks' = locks \ {"si7021"}
             /\ out' = <<BtcTemperature(BtcRaw(b0, b1)), BtcHumidity(rawH)>>
             /\ rawH' = 0
             /\ pc' = "b_rl_lock"
        ELSE /\ opLog' = Append(opLog, ReadEv(SI7021_ADDRESS, 0, FALSE, muxCtl))
             /\ BSiFail
    /\ UNCHANGED <<sd, cycles, lightLog>>
    /\ UNCHANGED btcIdle

BReadLightLock == BLock("b_rl_lock", "light", "b_rl_read")

\* _read_light: readfrom_into(LIGHT_I2C_ADDRESS, result); unlock(); the lux
\* value, or None after an error.
BReadLight ==
    /\ script = "btc" /\ pc = "b_rl_read"
    /\ locks' = locks \ {"light"}
    /\ \E ok \in BOOLEAN, b0 \in SensorBytes, b1 \in SensorBytes :
        IF ok
        THEN /\ lightLog' = Append(lightLog, ReadEv(LIGHT_I2C_ADDRESS, BtcRaw(b0, b1), TRUE, muxCtl))
             /\ out' = <<BtcLight(b0, b1)>>
        ELSE /\ lightLog' = Append(lightLog, ReadEv(LIGHT_I2C_ADDRESS, 0, FALSE, muxCtl))
             /\ out' = <<None>>
    /\ pc' = "b_draw"
    /\ UNCHANGED <<sd, opLog, rawH, cycles>>
    /\ UNCHANGED btcIdle

\* with canvas(self.oled) as draw; a failure is logged.  Then run sleeps
\* REFRESH_RATE seconds.
BDraw ==
    /\ script = "btc" /\ pc = "b_draw"
    /\ \E ok \in BOOLEAN : opLog' = <<DisplayEv(OLED_I2C_ADDRESS, 0, ok, muxCtl)>>
    /\ pc' = "b_loop_top"
    /\ UNCHANGED <<sd, rawH, cycles, lightLog, locks, out>>
    /\ UNCHANGED btcIdle

BRunPcs == {"b_loop_top", "b_rs_lock", "b_rs_hcmd", "b_rs_hread", "b_rs_tcmd",
            "b_rs_tread", "b_rl_lock", "b_rl_read", "b_draw"}

\* KeyboardInterrupt in run: oled.clear(), oled.hide().
BInterrupt ==
    /\ script = "btc" /\ pc \in BRunPcs
    /\ \E ok \in BOOLEAN : opLog' = <<DisplayEv(OLED_I2C_ADDRESS, 0, ok, muxCtl)>>
    /\ pc' = "b_done"
    /\ UNCHANGED <<sd, rawH, cycles, lightLog, locks, out>>
    /\ UNCHANGED btcIdle

BtcInit ==
    /\ script = "btc" /\ pc = "b_start"
    /\ muxCtl = NoCtl
    /\ displays = [n \in {"btc", "clock", "temp"} |-> 0]
    /\ sd = 1 /\ addr = 1 /\ serial = 0
    /\ opLog = << >> /\ ret = "loop_top" /\ buf = << >> /\ rawH = 0
    /\ curTime = 0 /\ store = NoStore
    /\ now = StartTime /\ cycles = 0 /\ net = "fast" /\ fetched = NoFetch
    /\ lightLog = << >> /\ locks = {} /\ arg = 0 /\ out = 0

BtcNext ==
    \/ BConstruct \/ BSetupSiLock \/ BSetupSiScan \/ BSetupLightLock \/ BSetupLightScan
    \/ BLightWriteLock \/ BLightWrite \/ BLightWait \/ BSetupDisplay \/ BLoopTop
    \/ BReadSiLock \/ BSiHumCmd \/ BSiHumRead \/ BSiTempCmd \/ BSiTempRead
    \/ BReadLightLock \/ BReadLight \/ BDraw \/ BInterrupt

SpecBtc == BtcInit /\ [][BtcNext]_vars

(***************************************************************************)
(* Either script.                                                          *)
(***************************************************************************)
Init == MultiInit \/ BtcInit

Next == MultiNext \/ BtcNext

Spec == Init /\ [][Next]_vars

(***************************************************************************)
(* select_channel on its own: called with any channel up to MaxChannel,    *)
(* from any control byte the multiplexer can hold, with the bus accepting  *)
(* the write or not.  opLog holds the log of the latest call.              *)
(***************************************************************************)
harnessIdle == <<script, displays, sd, addr, serial, ret, buf, rawH, curTime,
                 store, now, net, fetched, lightLog, locks>>

SelectCall ==
    /\ script = "select" /\ pc = "call"
    /\ cycles < MaxCalls
    /\ \E channel \in 0 .. MaxChannel, ok \in BOOLEAN :
        LET r == SelectChannel(channel, ok, muxCtl, << >>)
        IN  /\ muxCtl' = r.ctl
            /\ opLog' = r.log
            /\ arg' = channel
            /\ out' = muxCtl       \* the control byte before the call
    /\ cycles' = cycles + 1
    /\ UNCHANGED pc
    /\ UNCHANGED harnessIdle

SelectInit ==
    /\ script = "select" /\ pc = "call"
    /\ muxCtl \in {NoCtl, 0} \cup {Shl(1, c) : c \in 0 .. 7}
    /\ displays = [n \in {"btc", "clock", "temp"} |-> 0]
    /\ sd = 1 /\ addr = 1 /\ serial = 0
    /\ opLog = << >> /\ ret = "loop_top" /\ buf = << >> /\ rawH = 0
    /\ curTime = 0 /\ store = NoStore
    /\ now = StartTime /\ cycles = 0 /\ net = "fast" /\ fetched = NoFetch
    /\ lightLog = << >> /\ locks = {} /\ arg = 0 /\ out = 0

SpecSelect == SelectInit /\ [][SelectCall]_vars

(***************************************************************************)
(* The decoders on their own: arg is the pair of bytes read, most          *)
(* significant first; out is what the script returns for them.             *)
(***************************************************************************)
decodeIdle == <<script, muxCtl, displays, sd, addr, serial, opLog, ret, buf, rawH,
                curTime, store, now, cycles, net, fetched, lightLog, locks, arg>>

\* multi.py _read_si7021 with both registers reading arg.
DecodeMulti ==
    /\ script = "decode" /\ pc = "d_ready"
    /\ out' = <<MultiTemperature(MultiRaw(arg[1], arg[2])), MultiHumidity(MultiRaw(arg[1], arg[2]))>>
    /\ pc' = "d_multi"
    /\ UNCHANGED decodeIdle

\* btc.py _read_si7021 with both registers reading arg.
DecodeBtc ==
    /\ script = "decode" /\ pc = "d_ready"
    /\ out' = <<BtcTemperature(BtcRaw(arg[1], arg[2])), BtcHumidity(BtcRaw(arg[1], arg[2]))>>
    /\ pc' = "d_btc"
    /\ UNCHANGED decodeIdle

\* btc.py _read_light with the sensor reading arg.
DecodeLight ==
    /\ script = "decode" /\ pc = "d_ready"
    /\ out' = <<BtcLight(arg[1], arg[2])>>
    /\ pc' = "d_light"
    /\ UNCHANGED decodeIdle

DecodeInit ==
    /\ script = "decode" /\ pc = "d_ready"
    /\ arg \in Byte \X Byte
    /\ muxCtl = NoCtl
    /\ displays = [n \in {"btc", "clock", "temp"} |-> 0]
    /\ sd = 1 /\ addr = 1 /\ serial = 0
    /\ opLog = << >> /\ ret = "loop_top" /\ buf = << >> /\ rawH = 0
    /\ curTime = 0 /\ store = NoStore
    /\ now = StartTime /\ cycles = 0 /\ net = "fast" /\ fetched = NoFetch
    /\ lightLog = << >> /\ locks = {} /\ out = 0

DecodeNext == DecodeMulti \/ DecodeBtc \/ DecodeLight

SpecDecode == DecodeInit /\ [][DecodeNext]_vars

(***************************************************************************)
(* Properties.                                                             *)
(***************************************************************************)
IsBus(e) == e.k \in BusKinds
IsMuxWrite(e) == e.k = "write" /\ e.a = 112
IsSiCommand(e) == e.k = "write" /\ e.a = 64 /\ e.ok
IsNotRead(e) == e.k # "read"

\* The indexes of the bus transactions of opLog after index i.
BusAfter(i) == {j \in (i + 1) .. Len(opLog) : IsBus(opLog[j])}
First(S) == CHOOSE j \in S : \A l \in S : j <= l

\* C1: in multi.py every display transaction of an operation (a probe, an
\* initialisation, a drawing, a clear) on channel c comes after a
\* select_channel(c) call of the same operation, with no other
\* select_channel call and no other write to the multiplexer in between.
C1_SelectPrecedesDisplay ==
    script = "multi" =>
        \A i \in 1 .. Len(opLog) :
            opLog[i].k = "display" =>
                \E j \in 1 .. (i - 1) :
                    /\ opLog[j].k = "select_channel"
                    /\ opLog[j].a = opLog[i].v
                    /\ \A l \in (j + 1) .. (i - 1) :
                        /\ opLog[l].k # "select_channel"
                        /\ IsMuxWrite(opLog[l]) =>
                            l = j + 1 /\ opLog[l].v = Pow2(opLog[j].a)

\* The clock display has just been drawn in a poll cycle.
C1_Witness ==
    /\ script = "multi" /\ pc = "upd_select_3" /\ cycles = 2
    /\ Len(opLog) > 0
    /\ opLog[Len(opLog)].k = "display"
    /\ opLog[Len(opLog)].v = 2
    /\ opLog[Len(opLog)].ok

\* C2: select_channel(channel) with channel in 0..7 makes exactly one bus
\* transaction: a write of the byte 1 << channel to address 0x70.
C2_OneControlWrite ==
    (script = "select" /\ cycles > 0 /\ arg \in 0 .. 7) =>
        LET bus == SelectSeq(opLog, IsBus)
        IN  /\ Len(bus) = 1
            /\ bus[1].k = "write"
            /\ bus[1].a = 112
            /\ bus[1].v = <<1, 2, 4, 8, 16, 32, 64, 128>>[arg + 1]

\* select_channel(7) has selected channel 7.
C2_Witness ==
    script = "select" /\ cycles > 0 /\ arg = 7 /\ muxCtl = 128 /\ out # 128

\* C3: select_channel(channel) with channel > 7 makes no bus transaction,
\* returns normally and leaves the control byte as it was, at every call.
C3_OutOfRangeIsNoOp ==
    (script = "select" /\ cycles > 0 /\ arg > 7) =>
        /\ SelectSeq(opLog, IsBus) = << >>
        /\ opLog[Len(opLog)].k = "return" /\ opLog[Len(opLog)].ok
        /\ muxCtl = out

\* The last of several calls had a channel over 7 and channel 2 is still
\* selected.
C3_Witness ==
    script = "select" /\ cycles = MaxCalls /\ arg > 7 /\ muxCtl = 4

\* C4: when the write of a select_channel fails, the call returns normally,
\* the control byte stays what it was when the call began, and the next bus
\* transaction of the operation is the caller's display transaction, made
\* under that old control byte (or the caller is about to make it).
C4_FailedSelectGoesOn ==
    script = "multi" =>
        \A i \in 2 .. Len(opLog) :
            (IsMuxWrite(opLog[i]) /\ ~opLog[i].ok /\ opLog[i - 1].k = "select_channel") =>
                /\ i < Len(opLog)
                /\ opLog[i + 1].k = "return" /\ opLog[i + 1].ok
                /\ opLog[i + 1].m = opLog[i - 1].m
                /\ IF BusAfter(i) = {}
                   THEN /\ pc \in {"setup_probe", "upd_draw_1", "upd_draw_2", "upd_draw_3"}
                        /\ muxCtl = opLog[i - 1].m
                   ELSE /\ opLog[First(BusAfter(i))].k = "display"
                        /\ opLog[First(BusAfter(i))].m = opLog[i - 1].m

\* The select of the clock's channel failed and the clock frame went out
\* while the BTC display's channel was still selected.
C4_Witness ==
    /\ script = "multi" /\ Len(opLog) = 4
    /\ opLog[1].k = "select_channel" /\ opLog[1].a = 2
    /\ IsMuxWrite(opLog[2]) /\ ~opLog[2].ok
    /\ opLog[4].k = "display" /\ opLog[4].ok /\ opLog[4].v = 2 /\ opLog[4].m = 2

\* C5 as stated: whenever a control byte has been written, it has exactly
\* one bit set.
C5_ExactlyOneChannel ==
    (script = "multi" /\ muxCtl # NoCtl) => BitCount(muxCtl) = 1

\* C5 amended: the last control byte written has at most one bit set; it is
\* 0, no channel selected, after a successful reset in __init__ and after
\* each successful deselect of _read_si7021.
C5_AtMostOneChannel ==
    script = "multi" =>
        /\ muxCtl = NoCtl \/ BitCount(muxCtl) <= 1
        /\ pc \in {"si_hcmd", "si_hread", "si_tcmd", "si_tread"} => muxCtl = 0

\* A later refresh is reading the sensor with no channel selected, after
\* the displays have been drawn.
C5_Witness ==
    script = "multi" /\ pc = "si_hread" /\ cycles = 2 /\ muxCtl = 0

\* What C6 says the humidity is for a raw value, in tenths.
ClaimedHumidity(raw) ==
    RoundHalfEven(Max(0, Min(65536000, 1250 * raw - 3932160)), 65536)

\* C6: in either script the humidity returned for the raw value is
\* 125 * raw / 65536 - 6 clamped to [0, 100] and rounded to one decimal,
\* so it lies in [0, 100].
C6_HumidityClamped ==
    (script = "decode" /\ pc \in {"d_multi", "d_btc"}) =>
        /\ out[2] = ClaimedHumidity(256 * arg[1] + arg[2])
        /\ out[2] >= 0 /\ out[2] <= 1000

\* What C7 says the temperature is for a raw value, in tenths.
ClaimedTemperature(raw) ==
    RoundTieDown(Max(0 - 262144000, Min(819200000, 17572 * raw - 307036160)), 655360)

\* C7: in either script the temperature returned for the raw value is
\* 175.72 * raw / 65536 - 46.85 clamped to [-40, 125] and rounded to one
\* decimal, so it lies in [-40, 125].
C7_TemperatureClamped ==
    (script = "decode" /\ pc \in {"d_multi", "d_btc"}) =>
        /\ out[1] = ClaimedTemperature(256 * arg[1] + arg[2])
        /\ out[1] >= 0 - 400 /\ out[1] <= 1250

\* C8: _read_light returns (256 * hi + lo) / 1.2 rounded to one decimal:
\* the tenth nearest to it, 10 * raw / 1.2 being 25 * raw / 3; the bytes
\* 0x01, 0x2C give 250.0.
C8_LightDecode ==
    (script = "decode" /\ pc = "d_light") =>
        LET raw == 256 * arg[1] + arg[2]
        IN  /\ 3 * out[1] - 25 * raw \in (0 - 1) .. 1
            /\ arg = <<1, 44>> => out[1] = 2500

C8_Witness ==
    script = "decode" /\ pc = "d_light" /\ arg = <<1, 44>> /\ out = <<2500>>

\* C9: the transactions with the light sensor other than reads are, in this
\* order, the writes of 0x01, 0x07, 0x10 to address 0x23 and a wait of at
\* least 200 ms, each made only when the one before succeeded; and every
\* read comes after all four.
C9_LightSetupOrder ==
    script = "btc" =>
        LET setup == SelectSeq(lightLog, IsNotRead)
        IN  /\ Len(setup) <= 4
            /\ \A i \in 1 .. Len(setup) :
                /\ i <= 3 => (setup[i].k = "write" /\ setup[i].a = 35
                              /\ setup[i].v = <<1, 7, 16>>[i])
                /\ i = 4 => (setup[i].k = "sleep" /\ setup[i].v >= 200)
                /\ i > 1 => setup[i - 1].ok
            /\ \A i \in 1 .. Len(lightLog) :
                lightLog[i].k = "read" =>
                    /\ i > 4
                    /\ \A j \in 1 .. 4 : lightLog[j].k # "read" /\ lightLog[j].ok

\* The sensor has been read in a second poll cycle.
C9_Witness ==
    /\ script = "btc" /\ cycles = 2 /\ pc = "b_draw"
    /\ Len(lightLog) = 6
    /\ lightLog[6].k = "read" /\ lightLog[6].ok

\* C10 as stated: in both scripts every command written to the Si7021 is
\* followed by a wait of at least 25 ms, never directly by a read.
C10_EveryCommandSettles ==
    \A i \in 1 .. (Len(opLog) - 1) :
        IsSiCommand(opLog[i]) =>
            opLog[i + 1].k = "sleep" /\ opLog[i + 1].v >= 25

\* C10 amended: every measurement command (0xF5 in both scripts, 0xF3 in
\* multi.py) is followed by a wait of at least 25 ms before the next read;
\* btc.py fetches the temperature with 0xE0, read temperature of the
\* previous humidity measurement, and reads the result directly after it.
C10_MeasureCommandSettles ==
    \A i \in 1 .. (Len(opLog) - 1) :
        IsSiCommand(opLog[i]) =>
            /\ opLog[i].v \in {245, 243} =>
                (opLog[i + 1].k = "sleep" /\ opLog[i + 1].v >= 25)
            /\ opLog[i].v \notin {245, 243} =>
                (script = "btc" /\ opLog[i].v = 224 /\ opLog[i + 1].k = "read")

\* btc.py has read the temperature right after the 0xE0 command.
C10_Witness ==
    /\ script = "btc" /\ Len(opLog) = 5
    /\ opLog[1].v = 245 /\ opLog[2].k = "sleep" /\ opLog[3].k = "read"
    /\ opLog[4].v = 224 /\ opLog[5].k = "read" /\ opLog[5].ok

(***************************************************************************)
(* Failure handling.                                                       *)
(***************************************************************************)
\* Some bus transaction of the operation logged in opLog failed.
BusFailed == \E i \in 1 .. Len(opLog) : IsBus(opLog[i]) /\ ~opLog[i].ok

\* C11: a bus error at any step of _read_si7021 fails the whole reading:
\* the call returns normally with the fallback for both values, (22.5, 45.0)
\* in multi.py and (None, None) in btc.py; a call without a bus error
\* returns the pair decoded from the bytes it read.
C11_FailedReadingIsWhole ==
    /\ (script = "multi" /\ pc = "ud_weather") =>
            /\ fetched.k = "inside"
            /\ IF BusFailed
               THEN fetched.w = <<225, 450>>
               ELSE /\ Len(opLog) = 10
                    /\ fetched.w = <<MultiTemperature(256 * opLog[9].v + opLog[10].v),
                                      MultiHumidity(256 * opLog[5].v + opLog[6].v)>>
    /\ (script = "btc" /\ pc = "b_rl_lock") =>
            IF BusFailed
            THEN out = <<None, None>>
            ELSE /\ Len(opLog) = 5
                 /\ out = <<BtcTemperature(opLog[5].v), BtcHumidity(opLog[3].v)>>

\* multi.py has measured the humidity, the second byte of the temperature
\* failed, and the call returned the mock pair.
C11_Witness ==
    /\ script = "multi" /\ pc = "ud_weather"
    /\ Len(opLog) = 10
    /\ opLog[6].k = "read" /\ opLog[6].ok
    /\ opLog[10].k = "read" /\ ~opLog[10].ok
    /\ fetched.w = <<225, 450>>

\* C12: a failure during one-time device setup is fatal: the poll loop is
\* entered only when every device was set up (multi.py: all three displays
\* are in self.displays; btc.py: the light sensor took its three commands
\* and the display was initialised), and an error inside the loop does not
\* end it.
C12_SetupFailureIsFatal ==
    /\ (script = "multi" /\ pc \in RunPcs) =>
            \A n \in {"btc", "clock", "temp"} : displays[n] # 0
    /\ (script = "btc" /\ pc \in BRunPcs) =>
            /\ Len(lightLog) >= 4
            /\ \A i \in 1 .. 3 : lightLog[i].k = "write" /\ lightLog[i].ok
    /\ (script = "btc" /\ pc = "b_failed") => cycles = 0

(***************************************************************************)
(* The slow refresh of multi.py.                                           *)
(***************************************************************************)
\* The positions of _update_data inside a refresh.
RefreshPcs == {"ud_btc", "ud_usd", "si_deselect", "si_hcmd", "si_hread", "si_tcmd",
               "si_tread", "ud_weather", "ud_stamp"}

\* C13: in a refresh of multi.py a failed fetch leaves its stored field as
\* it was ("Error" for the price, a string holding "Error" for the rate,
\* (None, None) for the weather), a successful one is stored whatever the
\* fetches before it returned, and no fetch touches another source's field.
C13_FailedFetchKeepsStored ==
    [][/\ (pc = "ud_btc" /\ pc' = "ud_usd") =>
            /\ fetched'.k = "btc"
            /\ store'.btc_price = IF fetched'.s = "Error" THEN store.btc_price ELSE fetched'.s
            /\ store' = [store EXCEPT !.btc_price = store'.btc_price]
       /\ (pc = "ud_usd" /\ pc' = "si_deselect") =>
            /\ fetched'.k = "usd"
            /\ store'.usd_czk_rate = IF fetched'.s = "USD/CZK: Error"
                                     THEN store.usd_czk_rate ELSE fetched'.s
            /\ store' = [store EXCEPT !.usd_czk_rate = store'.usd_czk_rate]
       /\ (pc = "ud_weather" /\ pc' = "ud_stamp") =>
            /\ fetched'.k = "outside"
            /\ fetched'.w = <<None, None>> => store'.outside = store.outside
            /\ (fetched'.w[1] # None /\ fetched'.w[2] # None) => store'.outside = fetched'.w
            /\ store' = [store EXCEPT !.outside = store'.outside]
      ]_vars

\* In a later refresh the price fetch has failed and the price of the
\* refresh before is still stored.
C13_Witness ==
    /\ script = "multi" /\ pc = "ud_usd"
    /\ fetched.k = "btc" /\ fetched.s = "Error"
    /\ store.btc_price = "$97,000"

\* C14: for each display the probe picks the first of 0x3C, 0x3D that
\* answers, 0x3C when neither does; the display is bound to that address in
\* _setup_displays, and nothing after _setup_displays changes self.displays.
C14_ProbeBindsOnce ==
    [][/\ (script = "multi" /\ pc = "setup_probe" /\ pc' = "setup_init") =>
            LET n == Len(opLog')
            IN  \/ n >= 2 /\ opLog'[n].k = "display" /\ opLog'[n].a = 60 /\ opLog'[n].ok
                   /\ opLog'[n - 1].k # "display"
                   /\ serial' = 60
                \/ n >= 2 /\ opLog'[n].k = "display" /\ opLog'[n].a = 61 /\ opLog'[n].ok
                   /\ opLog'[n - 1].k = "display" /\ opLog'[n - 1].a = 60 /\ ~opLog'[n - 1].ok
                   /\ serial' = 61
                \/ n >= 2 /\ opLog'[n].k = "display" /\ opLog'[n].a = 61 /\ ~opLog'[n].ok
                   /\ opLog'[n - 1].k = "display" /\ opLog'[n - 1].a = 60 /\ ~opLog'[n - 1].ok
                   /\ serial' = 60
       /\ (script = "multi" /\ pc = "setup_init") =>
            \E name \in {"btc", "clock", "temp"} :
                /\ name = Names[sd]
                /\ displays[name] = 0
                /\ displays' \in {displays, [displays EXCEPT ![name] = serial]}
       /\ (script = "multi" /\ pc # "setup_init") => displays' = displays
      ]_vars

\* The clock display answered at 0x3D only and still has that address in
\* the second turn of run's loop.
C14_Witness ==
    /\ script = "multi" /\ cycles = 2 /\ pc = "loop_sleep"
    /\ displays["clock"] = 61 /\ displays["btc"] = 60 /\ displays["temp"] = 0

\* C15: multi.py _read_si7021 writes to or reads from the sensor at 0x40
\* only after its own write of 0 to the multiplexer has succeeded; when that
\* write fails the call returns the mock pair with the failed write as its
\* only bus transaction.
C15_DeselectBeforeSensor ==
    script = "multi" =>
        /\ \A i \in 1 .. Len(opLog) :
                opLog[i].a = 64 =>
                    /\ i > 1
                    /\ opLog[1].k = "write" /\ opLog[1].a = 112 /\ opLog[1].v = 0
                    /\ opLog[1].ok /\ opLog[1].m = 0
        /\ (pc = "ud_weather" /\ ~opLog[1].ok) =>
                /\ Len(opLog) = 1
                /\ fetched.w = <<225, 450>>

\* The deselect failed and the call returned the mock pair at once, with a
\* display channel still selected.
C15_Witness ==
    /\ script = "multi" /\ pc = "ud_weather"
    /\ Len(opLog) = 1 /\ ~opLog[1].ok /\ opLog[1].a = 112
    /\ muxCtl = 8
    /\ fetched.w = <<225, 450>>

\* C16: btc.py holds a bus lock only inside the operation that took it:
\* between operations no lock is held, so each try_lock loop finds its
\* lock free, and inside an operation only that operation's lock is held.
C16_LockHeldOnlyInside ==
    (script = "btc" /\ pc # "b_done") =>
        locks = (IF pc \in {"b_si_scan", "b_rs_hcmd", "b_rs_hread", "b_rs_tcmd", "b_rs_tread"}
                 THEN {"si7021"}
                 ELSE IF pc \in {"b_li_scan", "b_lw_write", "b_rl_read"}
                 THEN {"light"}
                 ELSE {})

\* _read_si7021 failed on the bus, gave its lock back, and _read_light has
\* taken the light sensor's lock in the second turn of the loop.
C16_Witness ==
    /\ script = "btc" /\ pc = "b_rl_read" /\ cycles = 2
    /\ out = <<None, None>>
    /\ locks = {"light"}

\* The calls of _update_data: the first one, made by run before its loop,
\* and the one that opens the first turn of the loop.
\* (A call is one that runs to its decision, not one a KeyboardInterrupt
\* cuts short.)
FirstCall == script = "multi" /\ pc = "ud_check" /\ ret = "loop_top" /\ pc' \in {"ud_btc", ret}
SecondCall == script = "multi" /\ pc = "ud_check" /\ cycles = 1 /\ pc' \in {"ud_btc", ret}

\* C17 as stated: the refresh runs exactly when 300 s have passed since the
\* start of the refresh before, and the second call never refreshes.
C17_SecondCallNeverRefreshes ==
    [][/\ (script = "multi" /\ pc = "ud_check" /\ pc' \in {"ud_btc", ret}) =>
            (pc' = "ud_btc" <=> now - store.last_slow_update >= 300)
       /\ SecondCall => pc' # "ud_btc"
      ]_vars

\* C17: a call of _update_data refreshes exactly when 300 s have passed
\* since the start time the refresh before recorded (so the first call
\* always does, and the second does not unless the first refresh itself
\* lasted 300 s); a refresh keeps the time it started at and records it at
\* its end whatever its fetches returned; a call that does not refresh
\* changes no stored field.
C17_RefreshWhenDue ==
    [][/\ (script = "multi" /\ pc = "ud_check" /\ pc' \in {"ud_btc", ret}) =>
            /\ pc' = "ud_btc" <=> now - store.last_slow_update >= 300
            /\ pc' = "ud_btc" => curTime' = now
            /\ store' = store
       /\ FirstCall => pc' = "ud_btc"
       /\ SecondCall => (pc' = "ud_btc" <=> now - StartTime >= 300)
       /\ (script = "multi" /\ pc \in RefreshPcs /\ pc' \in RefreshPcs) =>
            /\ curTime' = curTime
            /\ store'.last_slow_update = store.last_slow_update
       /\ (script = "multi" /\ pc = "ud_stamp" /\ pc' = ret) =>
            store' = [store EXCEPT !.last_slow_update = curTime]
      ]_vars

\* Every fetch of the first refresh failed, the refresh still recorded its
\* start, and the second call, made at once, did not refresh.
C17_Witness ==
    /\ script = "multi" /\ pc = "upd_select_1" /\ cycles = 1
    /\ now = StartTime
    /\ store.last_slow_update = StartTime
    /\ store.btc_price = "Loading..." /\ store.usd_czk_rate = "Loading..."
    /\ store.outside = <<None, None>>

\* C18: once multi.py has its data storage, btc_price is never "Error" and
\* usd_czk_rate never holds "Error"; once a slow refresh has completed,
\* inside_temp and inside_humidity are not None.
C18_NoSentinelStored ==
    (script = "multi" /\ pc \in RunPcs \cup {"sh_select", "done"}) =>
        /\ store.btc_price \notin {"Error", "USD/CZK: Error"}
        /\ store.usd_czk_rate \notin {"Error", "USD/CZK: Error"}
        /\ store.last_slow_update # 0 =>
                store.inside[1] # None /\ store.inside[2] # None

\* After two turns of the loop: the sensor could not be read, the rate
\* service answered without a rate, and the price is still the placeholder.
C18_Witness ==
    /\ script = "multi" /\ cycles = 2 /\ pc = "loop_sleep"
    /\ store.last_slow_update # 0
    /\ store.inside = <<225, 450>>
    /\ store.usd_czk_rate = "$/CZK: N/A"
    /\ store.btc_price = "Loading..."

====
